---- MODULE Spec2Model ----
(***************************************************************************)
(* Model of src/main.py: the thresholding mask (make_transparent), the     *)
(* blur-field selection (_pick_blur_modes), bearer authentication and the  *)
(* temp-file / subprocess pipeline of convert_png_to_svg as run by the     *)
(* /transparent, /svg and /process-both handlers.                          *)
(***************************************************************************)
EXTENDS Integers, Sequences, FiniteSets, TLC

\* Python's None; an optional number n is <<n>>.
None == <<>>

(***************************************************************************)
(* IEEE-754 binary64 arithmetic of line 103.  Every value that occurs      *)
(* there is a non-negative multiple of 2^-56 below 2^66, held as three     *)
(* limbs <<l0, l1, l2>> in base 2^22 (value = (l0 + l1*B + l2*B^2) / 2^56).*)
(***************************************************************************)
LimbBase == 4194304

\* The double nearest to each literal of line 103, in units of 2^-56.
C299 == <<67108, 2952790, 1224>>
C587 == <<33552, 1476395, 2404>>
C114 == <<4093641, 3959422, 466>>

RECURSIVE BitLen(_)
BitLen(n) == IF n = 0 THEN 0 ELSE 1 + BitLen(n \div 2)

RECURSIVE Pow2(_)
Pow2(n) == IF n = 0 THEN 1 ELSE 2 * Pow2(n - 1)

\* Carry propagation of a limb triple whose limbs may have outgrown the base.
Normalize(x) ==
    LET c0 == x[1] \div LimbBase
        m1 == x[2] + c0
        c1 == m1 \div LimbBase
    IN  <<x[1] % LimbBase, m1 % LimbBase, x[3] + c1>>

\* Round to nearest, ties to even, at 53 significant bits.  The values are
\* below 2^66, so the rounding quantum never exceeds 2^12 and lies in limb 0.
RoundDouble(x) ==
    LET top == BitLen(x[3])
        q   == IF top > 9 THEN Pow2(top - 9) ELSE 1
        low == x[1] % q
        odd == (x[1] \div q) % 2 = 1
        up  == (2 * low > q) \/ (2 * low = q /\ odd)
    IN  Normalize(<<x[1] - low + (IF up THEN q ELSE 0), x[2], x[3]>>)

\* float * int for a channel value 0..255
FMulInt(c, n) == RoundDouble(Normalize(<<c[1] * n, c[2] * n, c[3] * n>>))

\* float + float
FAdd(x, y) == RoundDouble(Normalize(<<x[1] + y[1], x[2] + y[2], x[3] + y[3]>>))

\* float(threshold) for an integer threshold 0..255
FromInt(t) == <<0, 0, t * 4096>>

FLess(x, y) ==
    \/ x[3] < y[3]
    \/ x[3] = y[3] /\ x[2] < y[2]
    \/ x[3] = y[3] /\ x[2] = y[2] /\ x[1] < y[1]

\* line 103: brightness = (0.299 * r + 0.587 * g + 0.114 * b)
Brightness(r, g, b) ==
    FAdd(FAdd(FMulInt(C299, r), FMulInt(C587, g)), FMulInt(C114, b))

\* line 104, the comparison brightness < thr with thr = float(threshold).
\* brightness lies in [0, 255], so a negative threshold is never exceeded
\* and a threshold above 255 always is.
BelowThreshold(r, g, b, threshold) ==
    IF threshold < 0 THEN FALSE
    ELSE IF threshold > 255 THEN TRUE
    ELSE FLess(Brightness(r, g, b), FromInt(threshold))

SolidBlack == <<0, 0, 0, 255>>
FullyTransparent == <<255, 255, 255, 0>>

\* line 105 keeping the source alpha instead of 255
ThresholdPixel_keepalpha(p, threshold) ==
    IF BelowThreshold(p[1], p[2], p[3], threshold) /\ p[4] > 0
    THEN <<0, 0, 0, p[4]>>
    ELSE FullyTransparent

\* lines 101-107: one pixel of the mask
ThresholdPixel(p, threshold) ==
    IF BelowThreshold(p[1], p[2], p[3], threshold) /\ p[4] > 0
    THEN SolidBlack
    ELSE FullyTransparent

(***************************************************************************)
(* Rasters.  A decoded image is [mode, w, h, px]: px is the flat pixel     *)
(* sequence of getdata(), w * h long; undecodable bytes are Garbage.       *)
(***************************************************************************)
Garbage == [mode |-> "garbage", w |-> 0, h |-> 0, px |-> <<>>]

\* Largest pixel count of a raster drawn for the mask specification.
MaxPixels == 2

SamplesRGBA == { <<0, 0, 0, 255>>, <<255, 255, 255, 255>>, <<1, 1, 1, 255>>,
                 <<0, 72, 24, 7>>, <<1, 1, 1, 0>> }
SamplesRGB  == { <<0, 0, 0>>, <<16, 16, 16>>, <<255, 255, 255>> }
SamplesL    == { <<0>>, <<200>> }
Thresholds  == { 1, 16, 45, 200 }
Radii       == { None, <<0>>, <<2>> }

SamplesOf(mode) ==
    CASE mode = "RGBA" -> SamplesRGBA
      [] mode = "RGB"  -> SamplesRGB
      [] mode = "L"    -> SamplesL

Shapes == { wh \in (1..MaxPixels) \X (1..MaxPixels) : wh[1] * wh[2] <= MaxPixels }

RastersOf(mode, w, h) ==
    { [mode |-> mode, w |-> w, h |-> h, px |-> px] :
        px \in [1..(w * h) -> SamplesOf(mode)] }

Rasters ==
    UNION { RastersOf(mode, wh[1], wh[2]) : mode \in {"RGBA", "RGB", "L"}, wh \in Shapes }

\* line 92: ImageFilter.GaussianBlur keeps mode and size; the pixel values
\* are the library's, any raster of that mode and size.
BlurResults(img) == RastersOf(img.mode, img.w, img.h)

\* lines 94-95: img.convert('RGBA')
ToRGBA(mode, p) ==
    CASE mode = "RGBA" -> p
      [] mode = "RGB"  -> <<p[1], p[2], p[3], 255>>
      [] mode = "L"    -> <<p[1], p[1], p[1], 255>>

ConvertRGBA(img) ==
    [mode |-> "RGBA", w |-> img.w, h |-> img.h,
     px |-> [i \in 1..Len(img.px) |-> ToRGBA(img.mode, img.px[i])]]

\* line 91: if pillow_blur_radius and pillow_blur_radius > 0
BlurApplies(radius) == radius # None /\ radius[1] > 0

\* lines 88-95: the raster the pixel loop reads; blurred is the library's
\* GaussianBlur output, used only when the blur applies.
LoopInput(img, radius, blurred) ==
    ConvertRGBA(IF BlurApplies(radius) THEN blurred ELSE img)

\* lines 97-115: the thresholded raster, saved as PNG
MaskOf(rgba, threshold) ==
    [fmt |-> "PNG", mode |-> "RGBA", w |-> rgba.w, h |-> rgba.h,
     px |-> [i \in 1..Len(rgba.px) |-> ThresholdPixel(rgba.px[i], threshold)]]

\* lines 82-118: make_transparent; undecodable bytes raise at line 88 and
\* the exception is re-raised at line 118.
make_transparent(image_data, threshold, radius, blurred) ==
    IF image_data = Garbage
    THEN [ok |-> FALSE, rgba |-> None, png |-> None]
    ELSE LET rgba == LoopInput(image_data, radius, blurred)
         IN  [ok |-> TRUE, rgba |-> rgba, png |-> MaskOf(rgba, threshold)]

(***************************************************************************)
(* JSON field values and Python strings.  A string is a sequence of        *)
(* one-character strings; a field value is NoneV, a number or a string.    *)
(***************************************************************************)
NoneV == [t |-> "none"]
NumV(n) == [t |-> "num", v |-> n]
StrV(s) == [t |-> "str", s |-> s]

\* Longest string drawn for a blur field.
MaxStrLen == 3

BlurChars == {" ", "0", "x", "5"}

RECURSIVE StringsUpTo(_, _)
StringsUpTo(chars, n) ==
    IF n = 0 THEN {<<>>}
    ELSE LET shorter == StringsUpTo(chars, n - 1)
         IN  shorter \cup { Append(t, c) : t \in shorter, c \in chars }

DigitChars == <<"0", "1", "2", "3", "4", "5", "6", "7", "8", "9">>

IsDigit(c) == \E d \in 1..10 : DigitChars[d] = c

DigitValue(c) == (CHOOSE d \in 1..10 : DigitChars[d] = c) - 1

\* str(n) for a non-negative integer
RECURSIVE IntToStr(_)
IntToStr(n) ==
    IF n < 10 THEN <<DigitChars[n + 1]>>
    ELSE Append(IntToStr(n \div 10), DigitChars[(n % 10) + 1])

\* str(val) of a field value that is not None
PyStr(val) == IF val.t = "num" THEN IntToStr(val.v) ELSE val.s

\* str.strip(): leading and trailing whitespace removed
RECURSIVE LStrip(_)
LStrip(s) == IF s # <<>> /\ Head(s) = " " THEN LStrip(Tail(s)) ELSE s

RECURSIVE RStrip(_)
RStrip(s) ==
    IF s # <<>> /\ s[Len(s)] = " " THEN RStrip(SubSeq(s, 1, Len(s) - 1)) ELSE s

Strip(s) == RStrip(LStrip(s))

\* s.startswith("0x")
StartsWith0x(s) == Len(s) >= 2 /\ s[1] = "0" /\ s[2] = "x"

RECURSIVE DecimalValue(_)
DecimalValue(s) ==
    IF s = <<>> THEN 0
    ELSE 10 * DecimalValue(SubSeq(s, 1, Len(s) - 1)) + DigitValue(s[Len(s)])

\* float(s) of a string over digits, blanks and letters: float() strips
\* blanks and accepts a non-empty digit run; <<>> stands for ValueError.
ParseFloat(s) ==
    LET t == Strip(s)
    IN  IF t # <<>> /\ \A i \in 1..Len(t) : IsDigit(t[i])
        THEN <<DecimalValue(t)>>
        ELSE None

\* lines 39-43 with default None: float(None) raises TypeError
to_float_or_none(val) ==
    CASE val.t = "none" -> None
      [] val.t = "num"  -> <<val.v>>
      [] val.t = "str"  -> ParseFloat(val.s)

\* lines 56-59
ExplicitPillow(blur_pillow_value) ==
    IF blur_pillow_value # NoneV THEN to_float_or_none(blur_pillow_value) ELSE None

\* lines 61-66; a kept string s is <<s>>
ExplicitIm(blur_im_value) ==
    IF blur_im_value # NoneV /\ StartsWith0x(PyStr(blur_im_value))
    THEN <<PyStr(blur_im_value)>>
    ELSE None

\* line 69 dropped: the single blur field is always consulted
pick_blur_modes_nofallbackguard(blur_value, blur_pillow_value, blur_im_value) ==
    LET pr == ExplicitPillow(blur_pillow_value)
        im == ExplicitIm(blur_im_value)
    IN  IF blur_value # NoneV
        THEN LET s == Strip(PyStr(blur_value))
             IN  IF StartsWith0x(s)
                 THEN [pr |-> pr, im |-> <<s>>]
                 ELSE [pr |-> to_float_or_none(StrV(s)), im |-> im]
        ELSE [pr |-> pr, im |-> im]

\* lines 45-76: _pick_blur_modes
pick_blur_modes(blur_value, blur_pillow_value, blur_im_value) ==
    LET pr == ExplicitPillow(blur_pillow_value)
        im == ExplicitIm(blur_im_value)
    IN  IF pr = None /\ im = None /\ blur_value # NoneV
        THEN LET s == Strip(PyStr(blur_value))
             IN  IF StartsWith0x(s)
                 THEN [pr |-> pr, im |-> <<s>>]
                 ELSE [pr |-> to_float_or_none(StrV(s)), im |-> im]
        ELSE [pr |-> pr, im |-> im]

BlurValues ==
    {NoneV, NumV(0), NumV(5)} \cup { StrV(s) : s \in StringsUpTo(BlurChars, MaxStrLen) }

OverrideValues ==
    {NoneV, NumV(5), StrV(<<"5">>), StrV(<<"x">>),
     StrV(<<"0", "x", "5">>), StrV(<<" ", "0", "x", "5">>)}

(***************************************************************************)
(* Authentication (lines 13-27).  A header is None or <<string>>; the      *)
(* configured key is None (API_KEY unset) or <<string>>.                   *)
(***************************************************************************)
UpperChars == <<"A", "B", "C", "E", "I", "K", "R", "S">>
LowerChars == <<"a", "b", "c", "e", "i", "k", "r", "s">>

\* str.lower() on one character
LowerChar(c) ==
    IF \E j \in 1..Len(UpperChars) : UpperChars[j] = c
    THEN LowerChars[CHOOSE j \in 1..Len(UpperChars) : UpperChars[j] = c]
    ELSE c

Lower(s) == [j \in 1..Len(s) |-> LowerChar(s[j])]

HasSpace(s) == \E j \in 1..Len(s) : s[j] = " "

FirstSpace(s) == CHOOSE j \in 1..Len(s) : s[j] = " " /\ \A k \in 1..(j - 1) : s[k] # " "

BearerWord == <<"b", "e", "a", "r", "e", "r">>

\* line 25 without the scheme test: any "<word> <key>" is accepted
authenticate_anyscheme(auth_header, api_key) ==
    IF auth_header = None \/ auth_header[1] = <<>> THEN FALSE
    ELSE IF ~HasSpace(auth_header[1]) THEN FALSE
    ELSE LET h      == auth_header[1]
             sp     == FirstSpace(h)
             token  == SubSeq(h, sp + 1, Len(h))
         IN  api_key = <<token>>

\* lines 19-27: authenticate(); split(' ', 1) with no blank raises
\* ValueError at the unpacking, caught at line 26.
authenticate(auth_header, api_key) ==
    IF auth_header = None \/ auth_header[1] = <<>> THEN FALSE
    ELSE IF ~HasSpace(auth_header[1]) THEN FALSE
    ELSE LET h      == auth_header[1]
             sp     == FirstSpace(h)
             scheme == SubSeq(h, 1, sp - 1)
             token  == SubSeq(h, sp + 1, Len(h))
         IN  Lower(scheme) = BearerWord /\ api_key = <<token>>

(***************************************************************************)
(* The service: worker threads running the three POST handlers over one    *)
(* shared temporary directory.                                             *)
(***************************************************************************)
TARGET_SIZE == <<4096, 4096>>

DefaultThreshold == 200
DefaultAlphamax == 3
DefaultOpttolerance == 2
DefaultTurdsize == 150

\* Concurrent handler threads.
NWorkers == 2
\* Requests accepted in one behaviour.
MaxRequests == 3
\* Names the temporary directory can hand out, per suffix.
NNames == 2

Workers == 1..NWorkers

PngNames == { <<"png", k>> : k \in 1..NNames }
PbmNames == { <<"pbm", k>> : k \in 1..NNames }
SvgNames == { <<"svg", k>> : k \in 1..NNames }
Names == PngNames \cup PbmNames \cup SvgNames

\* A file is [content, writer]; writer is <<w>> while worker w's request is
\* in progress or answered, None once that worker took its next request.
NoFile == <<>>

Routes == {"/transparent", "/svg", "/process-both"}

Pixel1x1(p) == [mode |-> "RGBA", w |-> 1, h |-> 1, px |-> <<p>>]
BlackImage == Pixel1x1(<<0, 0, 0, 255>>)
WhiteImage == Pixel1x1(<<255, 255, 255, 255>>)

\* Request bodies: 'url' (the fetched bytes are data), 'base64' or neither,
\* an optional 'blur'; every other key absent, so its default applies.
BodiesOver(blurs) ==
    { [src |-> "none", data |-> Garbage, blur |-> NoneV] }
    \cup [src : {"url", "base64"}, data : {BlackImage, WhiteImage, Garbage}, blur : blurs]

\* lines 249-261 (209-216, 312-324): the parameters of one request
Params(body) ==
    LET modes == pick_blur_modes(body.blur, NoneV, NoneV)
    IN  [threshold |-> DefaultThreshold, pillow_radius |-> modes.pr, im_blur |-> modes.im,
         alphamax |-> DefaultAlphamax, opttolerance |-> DefaultOpttolerance,
         turdsize |-> DefaultTurdsize, grayscale |-> FALSE, downscale |-> None]

\* lines 142-158: what `magick <in> ... -alpha off <pbm>` writes, as a term
\* over what it read and the options of its command line
MagickOut(content, cfg) ==
    [fmt |-> "PBM", src |-> content,
     args |-> <<cfg.grayscale, cfg.downscale,
                IF cfg.im_blur # None /\ StartsWith0x(cfg.im_blur[1]) THEN cfg.im_blur ELSE None>>]

\* lines 161-169: what `potrace -s ... -o <svg> <pbm>` writes
PotraceOut(content, cfg) ==
    [fmt |-> "SVG", src |-> content, args |-> <<cfg.turdsize, cfg.alphamax, cfg.opttolerance>>]

NoLoc == [mask |-> None, cfg |-> None, in_path |-> None, pbm_path |-> None,
          out_path |-> None, svg_data |-> None]

NoHist == [started |-> <<>>, ok |-> {}, failed |-> {}, fetched |-> FALSE,
           magick_in |-> None, pbm_from |-> None, svg_from |-> None, foreign |-> {}]

NoReq == <<>>
NoResp == <<>>

Response(code, png, svg) == [code |-> code, png |-> png, svg |-> svg]

VARIABLES m_in, m_out, b_in, b_out, API_KEY, pc, req, loc, hist, resp, fs, served

maskVars == <<m_in, m_out>>

blurVars == <<b_in, b_out>>

svcVars == <<API_KEY, pc, req, loc, hist, resp, fs, served>>

vars == <<m_in, m_out, b_in, b_out, API_KEY, pc, req, loc, hist, resp, fs, served>>

MaskIdle == m_in = None /\ m_out = None

BlurIdle == b_in = None /\ b_out = None

SvcIdle ==
    /\ API_KEY = None
    /\ pc = [w \in Workers |-> "idle"]
    /\ req = [w \in Workers |-> NoReq]
    /\ loc = [w \in Workers |-> NoLoc]
    /\ hist = [w \in Workers |-> NoHist]
    /\ resp = [w \in Workers |-> NoResp]
    /\ fs = [n \in Names |-> NoFile]
    /\ served = 0

\* Lines 195-218, 234-264, 297-327: a handler from its entry to the end of
\* make_transparent; blurred is GaussianBlur's output when the blur applies.
HandlerStart(route, header, body, api_key, blurred) ==
    LET quiet == [started |-> <<>>, ok |-> {}, failed |-> {}, fetched |-> FALSE,
                  mask |-> None, cfg |-> None]
    IN  IF ~authenticate(header, api_key)
        THEN [quiet EXCEPT !.started = <<>>] @@ [pc |-> "done", resp |-> Response(401, None, None)]
        ELSE IF body.src = "none"
        THEN quiet @@ [pc |-> "done", resp |-> Response(400, None, None)]
        ELSE LET cfg == Params(body)
                 m   == make_transparent(body.data, cfg.threshold, cfg.pillow_radius, blurred)
                 ran == [quiet EXCEPT !.started = <<"mask">>, !.fetched = (body.src = "url"),
                                      !.cfg = cfg]
             IN  IF ~m.ok
                 THEN [ran EXCEPT !.failed = {"mask"}]
                        @@ [pc |-> "done", resp |-> Response(500, None, None)]
                 ELSE IF route = "/transparent"
                 THEN [ran EXCEPT !.ok = {"mask"}]
                        @@ [pc |-> "done", resp |-> Response(200, <<m.png>>, None)]
                 ELSE [ran EXCEPT !.ok = {"mask"}, !.mask = m.png]
                        @@ [pc |-> "tmp_in", resp |-> NoResp]

BlurChoices(header, body, api_key) ==
    IF /\ authenticate(header, api_key)
       /\ body.src # "none"
       /\ body.data # Garbage
       /\ BlurApplies(Params(body).pillow_radius)
    THEN BlurResults(body.data)
    ELSE {None}

\* A request arrives at an idle worker and runs to the end of the mask stage.
Receive(w, route, header, body) ==
    /\ pc[w] = "idle"
    /\ served < MaxRequests
    /\ served' = served + 1
    /\ \E blurred \in BlurChoices(header, body, API_KEY) :
         \E r \in {HandlerStart(route, header, body, API_KEY, blurred)} :
             /\ pc' = [pc EXCEPT ![w] = r.pc]
             /\ req' = [req EXCEPT ![w] = [route |-> route, header |-> header, body |-> body]]
             /\ resp' = [resp EXCEPT ![w] = r.resp]
             /\ loc' = [loc EXCEPT ![w] = IF r.pc = "done" THEN NoLoc
                                          ELSE [NoLoc EXCEPT !.mask = r.mask, !.cfg = r.cfg]]
             /\ hist' = [hist EXCEPT ![w] = [NoHist EXCEPT !.started = r.started, !.ok = r.ok,
                                                           !.failed = r.failed,
                                                           !.fetched = r.fetched]]
    /\ UNCHANGED <<API_KEY, fs, maskVars, blurVars>>

\* The exception handlers of lines 184-187 and 291-292 / 357-358: the run
\* ends with a 500 response; nothing is removed.
Raise(w, stage, h) ==
    /\ pc' = [pc EXCEPT ![w] = "done"]
    /\ resp' = [resp EXCEPT ![w] = Response(500, None, None)]
    /\ loc' = [loc EXCEPT ![w] = NoLoc]
    /\ hist' = [hist EXCEPT ![w] = [h EXCEPT !.failed = @ \cup {stage}]]

Started(w, stage) == [hist[w] EXCEPT !.started = Append(@, stage)]

Foreign(w, n) == fs[n] # NoFile /\ fs[n].writer # <<w>>

\* lines 133-136: NamedTemporaryFile(suffix=".png", delete=False) creates a
\* file under a name that did not exist and the mask is written to it.
TempIn(w) ==
    /\ pc[w] = "tmp_in"
    /\ \E n \in PngNames :
         /\ fs[n] = NoFile
         /\ fs' = [fs EXCEPT ![n] = [content |-> loc[w].mask, writer |-> <<w>>]]
         /\ loc' = [loc EXCEPT ![w].in_path = n]
    /\ pc' = [pc EXCEPT ![w] = "mk_pbm"]
    /\ hist' = [hist EXCEPT ![w] = Started(w, "tmp_in")]
    /\ UNCHANGED <<API_KEY, req, resp, served, maskVars, blurVars>>

\* line 138: tempfile.mktemp(suffix=".pbm") returns a name that does not
\* exist at the call; the file is not created.
MkPbm(w) ==
    /\ pc[w] = "mk_pbm"
    /\ \E n \in PbmNames :
         /\ fs[n] = NoFile
         /\ loc' = [loc EXCEPT ![w].pbm_path = n]
    /\ pc' = [pc EXCEPT ![w] = "mk_svg"]
    /\ UNCHANGED <<API_KEY, req, resp, hist, fs, served, maskVars, blurVars>>

\* line 139: tempfile.mktemp(suffix=".svg")
MkSvg(w) ==
    /\ pc[w] = "mk_svg"
    /\ \E n \in SvgNames :
         /\ fs[n] = NoFile
         /\ loc' = [loc EXCEPT ![w].out_path = n]
    /\ pc' = [pc EXCEPT ![w] = "magick"]
    /\ UNCHANGED <<API_KEY, req, resp, hist, fs, served, maskVars, blurVars>>

\* check=True dropped at line 158: a failed magick is not noticed
AfterMagick_unchecked(exited_ok) == "potrace"

\* line 158: subprocess.run(magick_cmd, check=True)
AfterMagick(exited_ok) == IF exited_ok THEN "potrace" ELSE "raise"

\* line 169: subprocess.run(potrace_cmd, check=True)
AfterPotrace(exited_ok) == IF exited_ok THEN "read" ELSE "raise"

\* lines 142-158: the ImageMagick step; its exit status is the tool's.
MagickRun(w) ==
    /\ pc[w] = "magick"
    /\ \E exited_ok \in (IF fs[loc[w].in_path] = NoFile THEN {FALSE} ELSE BOOLEAN) :
         LET h0 == Started(w, "magick")
             h  == IF fs[loc[w].in_path] = NoFile THEN h0
                   ELSE [h0 EXCEPT !.magick_in = fs[loc[w].in_path].content,
                                   !.foreign = @ \cup (IF exited_ok /\ Foreign(w, loc[w].pbm_path)
                                                       THEN {"overwrite"} ELSE {})]
         IN  /\ fs' = IF exited_ok
                      THEN [fs EXCEPT ![loc[w].pbm_path] =
                               [content |-> MagickOut(fs[loc[w].in_path].content, loc[w].cfg),
                                writer |-> <<w>>]]
                      ELSE fs
             /\ IF AfterMagick(exited_ok) = "raise"
                THEN Raise(w, "magick", h)
                ELSE /\ pc' = [pc EXCEPT ![w] = "potrace"]
                     /\ hist' = [hist EXCEPT ![w] =
                                   IF exited_ok THEN [h EXCEPT !.ok = @ \cup {"magick"}]
                                   ELSE [h EXCEPT !.failed = @ \cup {"magick"}]]
                     /\ UNCHANGED <<resp, loc>>
    /\ UNCHANGED <<API_KEY, req, served, maskVars, blurVars>>

\* lines 161-169: the potrace step; it reads whatever the .pbm name holds
\* now and fails when the name holds nothing.
PotraceRun(w) ==
    /\ pc[w] = "potrace"
    /\ \E exited_ok \in (IF fs[loc[w].pbm_path] = NoFile THEN {FALSE} ELSE BOOLEAN) :
         LET h0 == Started(w, "potrace")
             h  == IF fs[loc[w].pbm_path] = NoFile THEN h0
                   ELSE [h0 EXCEPT !.pbm_from = <<fs[loc[w].pbm_path].writer>>,
                                   !.foreign = @ \cup (IF Foreign(w, loc[w].pbm_path)
                                                       THEN {"read"} ELSE {})
                                                \cup (IF exited_ok /\ Foreign(w, loc[w].out_path)
                                                       THEN {"overwrite"} ELSE {})]
         IN  /\ fs' = IF exited_ok
                      THEN [fs EXCEPT ![loc[w].out_path] =
                               [content |-> PotraceOut(fs[loc[w].pbm_path].content, loc[w].cfg),
                                writer |-> <<w>>]]
                      ELSE fs
             /\ IF AfterPotrace(exited_ok) = "raise"
                THEN Raise(w, "potrace", h)
                ELSE /\ pc' = [pc EXCEPT ![w] = "read"]
                     /\ hist' = [hist EXCEPT ![w] =
                                   IF exited_ok THEN [h EXCEPT !.ok = @ \cup {"potrace"}]
                                   ELSE [h EXCEPT !.failed = @ \cup {"potrace"}]]
                     /\ UNCHANGED <<resp, loc>>
    /\ UNCHANGED <<API_KEY, req, served, maskVars, blurVars>>

\* lines 171-172: open(temp_out_path, "rb").read(); a missing file raises
\* FileNotFoundError, caught at line 186.
ReadSvg(w) ==
    /\ pc[w] = "read"
    /\ IF fs[loc[w].out_path] = NoFile
       THEN Raise(w, "read", Started(w, "read"))
       ELSE /\ loc' = [loc EXCEPT ![w].svg_data = <<fs[loc[w].out_path].content>>]
            /\ hist' = [hist EXCEPT ![w] =
                          [Started(w, "read") EXCEPT
                              !.ok = @ \cup {"read"},
                              !.svg_from = <<fs[loc[w].out_path].writer>>,
                              !.foreign = @ \cup (IF Foreign(w, loc[w].out_path)
                                                  THEN {"read"} ELSE {})]]
            /\ pc' = [pc EXCEPT ![w] = "cleanup"]
            /\ UNCHANGED resp
    /\ UNCHANGED <<API_KEY, req, fs, served, maskVars, blurVars>>

\* lines 175-182 and 277-290 / 340-356: the three names are removed where
\* they exist, and the handler answers with the SVG read.
Cleanup(w) ==
    /\ pc[w] = "cleanup"
    /\ LET mine == {loc[w].in_path, loc[w].pbm_path, loc[w].out_path}
       IN  /\ fs' = [n \in Names |-> IF n \in mine THEN NoFile ELSE fs[n]]
           /\ hist' = [hist EXCEPT ![w].foreign =
                          @ \cup (IF \E n \in mine : Foreign(w, n) THEN {"delete"} ELSE {})]
    /\ resp' = [resp EXCEPT ![w] =
                  Response(200,
                           IF req[w].route = "/process-both" THEN <<loc[w].mask>> ELSE None,
                           loc[w].svg_data)]
    /\ loc' = [loc EXCEPT ![w] = NoLoc]
    /\ pc' = [pc EXCEPT ![w] = "done"]
    /\ UNCHANGED <<API_KEY, req, served, maskVars, blurVars>>

\* The worker thread is free for its next request; the answered request's
\* record is dropped and the files it wrote belong to a finished run.
Finish(w) ==
    /\ pc[w] = "done"
    /\ pc' = [pc EXCEPT ![w] = "idle"]
    /\ req' = [req EXCEPT ![w] = NoReq]
    /\ resp' = [resp EXCEPT ![w] = NoResp]
    /\ hist' = [hist EXCEPT ![w] = NoHist]
    /\ fs' = [n \in Names |-> IF fs[n] # NoFile /\ fs[n].writer = <<w>>
                              THEN [fs[n] EXCEPT !.writer = None] ELSE fs[n]]
    /\ UNCHANGED <<API_KEY, loc, served, maskVars, blurVars>>

Step(w) ==
    \/ TempIn(w)
    \/ MkPbm(w)
    \/ MkSvg(w)
    \/ MagickRun(w)
    \/ PotraceRun(w)
    \/ ReadSvg(w)
    \/ Cleanup(w)
    \/ Finish(w)

KeyK == <<"k">>
HdrBearerK == <<"B", "e", "a", "r", "e", "r", " ", "k">>
HdrBasicK == <<"B", "a", "s", "i", "c", " ", "k">>

\* Bodies of the concurrent specification: an inline image, no tuning keys.
PipelineBodies == [src : {"base64"}, data : {BlackImage, WhiteImage, Garbage}, blur : {NoneV}]

Init ==
    /\ MaskIdle
    /\ BlurIdle
    /\ API_KEY = <<KeyK>>
    /\ pc = [w \in Workers |-> "idle"]
    /\ req = [w \in Workers |-> NoReq]
    /\ loc = [w \in Workers |-> NoLoc]
    /\ hist = [w \in Workers |-> NoHist]
    /\ resp = [w \in Workers |-> NoResp]
    /\ fs = [n \in Names |-> NoFile]
    /\ served = 0

Next ==
    \E w \in Workers :
        \/ \E route \in {"/svg", "/process-both"}, body \in PipelineBodies :
              Receive(w, route, <<HdrBearerK>>, body)
        \/ Step(w)

Spec == Init /\ [][Next]_vars

\* Authorization headers and configured keys of the sequential specification.
Bearer == <<"B", "e", "a", "r", "e", "r">>
Schemes == { Bearer, BearerWord, <<"B", "E", "A", "R", "E", "R">>, <<"B", "a", "s", "i", "c">> }
Separators == { <<>>, <<" ">>, <<" ", " ">> }
Tokens == { <<>>, <<"k">>, <<"K">> }

Headers == {None, << <<>> >>} \cup { <<sch \o sep \o tok>> : sch \in Schemes, sep \in Separators, tok \in Tokens }

Keys == { None, << <<>> >>, <<KeyK>>, << <<" ", "k">> >> }

AuthBodies ==
    { [src |-> "none", data |-> Garbage, blur |-> NoneV],
      [src |-> "url", data |-> BlackImage, blur |-> NoneV] }

InitAuth ==
    /\ MaskIdle
    /\ BlurIdle
    /\ API_KEY \in Keys
    /\ pc = [w \in Workers |-> "idle"]
    /\ req = [w \in Workers |-> NoReq]
    /\ loc = [w \in Workers |-> NoLoc]
    /\ hist = [w \in Workers |-> NoHist]
    /\ resp = [w \in Workers |-> NoResp]
    /\ fs = [n \in Names |-> NoFile]
    /\ served = 0

\* One worker thread, requests handled one after the other, drawn over
\* every header and key.
NextAuth ==
    \/ \E route \in Routes, header \in Headers, body \in AuthBodies :
          Receive(1, route, header, body)
    \/ Step(1)

SpecAuth == InitAuth /\ [][NextAuth]_vars

\* One worker thread, requests drawn over every body.
NextSeq ==
    \/ \E route \in Routes, header \in {<<HdrBearerK>>, <<HdrBasicK>>},
          body \in BodiesOver({NoneV, NumV(5)}) :
          Receive(1, route, header, body)
    \/ Step(1)

SpecSeq == Init /\ [][NextSeq]_vars

InitMask ==
    /\ BlurIdle
    /\ SvcIdle
    /\ m_in \in [image : Rasters \cup {Garbage}, threshold : Thresholds, radius : Radii]
    /\ m_out = None

\* One call make_transparent(image, threshold, radius).
MaskRun ==
    /\ m_in # None
    /\ m_out = None
    /\ \E blurred \in (IF m_in.image # Garbage /\ BlurApplies(m_in.radius)
                       THEN BlurResults(m_in.image) ELSE {None}) :
          m_out' = make_transparent(m_in.image, m_in.threshold, m_in.radius, blurred)
    /\ UNCHANGED <<m_in, blurVars, svcVars>>

NextMask == MaskRun

SpecMask == InitMask /\ [][NextMask]_vars

InitBlur ==
    /\ MaskIdle
    /\ SvcIdle
    /\ b_in \in [blur : BlurValues, blur_pillow : OverrideValues, blur_im : OverrideValues]
    /\ b_out = None

\* One call _pick_blur_modes(blur, blur_pillow_value=..., blur_im_value=...).
BlurRun ==
    /\ b_in # None
    /\ b_out = None
    /\ b_out' = pick_blur_modes(b_in.blur, b_in.blur_pillow, b_in.blur_im)
    /\ UNCHANGED <<b_in, maskVars, svcVars>>

NextBlur == BlurRun

SpecBlur == InitBlur /\ [][NextBlur]_vars

(***************************************************************************)
(* Properties                                                              *)
(***************************************************************************)
IsOpaque(q) == q[4] = 255
IsTransparent(q) == q[4] = 0

\* L < threshold with L = 0.299r + 0.587g + 0.114b in exact arithmetic
ExactLumaBelow(p, threshold) == 299 * p[1] + 587 * p[2] + 114 * p[3] < 1000 * threshold

MaskDone == m_out # None /\ m_out.ok

\* C1: every output pixel of make_transparent is opaque exactly when the luma
\* 0.299r + 0.587g + 0.114b of the (blurred, RGBA-converted) input pixel is
\* strictly below the threshold and its alpha is non-zero, and transparent
\* in every other case.
C1_ExactLumaRule ==
    MaskDone =>
        \A i \in 1..Len(m_out.rgba.px) :
            LET p == m_out.rgba.px[i]
                q == m_out.png.px[i]
            IN  IF ExactLumaBelow(p, m_in.threshold) /\ p[4] # 0
                THEN IsOpaque(q)
                ELSE IsTransparent(q)

\* C2: the mask has the width and height of the input and each of its
\* pixels is either (0,0,0,255) or has alpha 0; no input colour and no
\* partial alpha survives.
C2_MaskIsTwoValued ==
    MaskDone =>
        /\ m_out.png.w = m_in.image.w
        /\ m_out.png.h = m_in.image.h
        /\ Len(m_out.png.px) = m_in.image.w * m_in.image.h
        /\ \A i \in 1..Len(m_out.png.px) :
              LET q == m_out.png.px[i]
              IN  /\ q = SolidBlack \/ IsTransparent(q)
                  /\ IsOpaque(q) => q = SolidBlack

\* A two-pixel input with a coloured, partly transparent pixel that becomes
\* opaque and a white pixel that becomes transparent.
C2_Witness ==
    /\ MaskDone
    /\ m_in.image.mode = "RGBA"
    /\ m_in.radius = None
    /\ m_in.image.px = << <<0, 72, 24, 7>>, <<255, 255, 255, 255>> >>
    /\ m_in.threshold = 200
    /\ m_out.png.px = <<SolidBlack, FullyTransparent>>

Succeeded(w) == pc[w] = "done" /\ resp[w].code = 200

PipelineRoute(w) == req[w] # NoReq /\ req[w].route \in {"/svg", "/process-both"}

\* C3: a conversion run ends either in a success that carries the SVG
\* written by the tracer of this same run after it exited successfully, or
\* in an error that carries no SVG; a failed stage never yields a success.
C3_SuccessCarriesOwnSvg ==
    \A w \in Workers :
        (pc[w] = "done" /\ PipelineRoute(w)) =>
            /\ resp[w].code = 200 =>
                  /\ resp[w].svg # None
                  /\ "potrace" \in hist[w].ok
                  /\ hist[w].svg_from = << <<w>> >>
            /\ resp[w].code # 200 => resp[w].svg = None
            /\ hist[w].failed # {} => resp[w].code # 200

\* C4: no temporary file of a finished request remains: every file that
\* exists was written by a request that is still being handled.
C4_TempFilesReleased ==
    \A n \in Names :
        fs[n] # NoFile =>
            /\ fs[n].writer # None
            /\ pc[fs[n].writer[1]] \notin {"idle", "done"}

HasImage(w) == req[w] # NoReq /\ req[w].body.src # "none" /\ req[w].body.data # Garbage

\* C5: a request whose image does not have the required size TARGET_SIZE
\* fails before any stage runs: no mask stage and no external tool is
\* started for it, and it is not answered with a success.
C5_SizeMismatchRejectedEarly ==
    \A w \in Workers :
        (HasImage(w) /\ <<req[w].body.data.w, req[w].body.data.h>> # TARGET_SIZE) =>
            /\ hist[w].started = <<>>
            /\ pc[w] = "done" => resp[w].code # 200

\* C6: two runs on the same raster with the same configuration that both
\* succeed return identical results (mask and SVG), whatever other runs
\* happened before or alongside.
C6_SameInputSameResult ==
    \A v, w \in Workers :
        (Succeeded(v) /\ Succeeded(w) /\ req[v].route = req[w].route
                      /\ req[v].body = req[w].body) =>
            resp[v] = resp[w]

\* C7: concurrent runs share no temporary file: the .pbm a run hands to
\* potrace and the .svg it reads back were written by that run, and no run
\* reads, overwrites or deletes a file of another run.
C7_RunsShareNoTempFile ==
    \A w \in Workers :
        /\ hist[w].foreign = {}
        /\ hist[w].pbm_from \in {None, << <<w>> >>}
        /\ hist[w].svg_from \in {None, << <<w>> >>}

StageOrder == <<"mask", "tmp_in", "magick", "potrace", "read">>

IsPrefix(a, b) == Len(a) <= Len(b) /\ a = SubSeq(b, 1, Len(a))

InStarted(w, stage) == \E i \in 1..Len(hist[w].started) : hist[w].started[i] = stage

\* C8: stages start in order and only after the earlier stage succeeded:
\* the mask is complete before convert_png_to_svg starts and is exactly
\* what the ImageMagick step reads; potrace starts only after ImageMagick
\* succeeded; the SVG is read only after potrace succeeded; after a failed
\* stage no later stage is started.
C8_StagesInOrder ==
    \A w \in Workers :
        /\ IsPrefix(hist[w].started, StageOrder)
        /\ InStarted(w, "tmp_in") => "mask" \in hist[w].ok
        /\ InStarted(w, "magick") =>
              /\ "mask" \in hist[w].ok
              /\ hist[w].magick_in # None
              /\ hist[w].magick_in.fmt = "PNG"
              /\ loc[w].mask # None => hist[w].magick_in = loc[w].mask
        /\ (loc[w].mask # None /\ req[w].body.blur = NoneV) =>
              loc[w].mask = MaskOf(ConvertRGBA(req[w].body.data), DefaultThreshold)
        /\ InStarted(w, "potrace") => "magick" \in hist[w].ok
        /\ InStarted(w, "read") => "potrace" \in hist[w].ok
        /\ hist[w].failed # {} =>
              /\ pc[w] = "done"
              /\ hist[w].failed = {hist[w].started[Len(hist[w].started)]}
              /\ hist[w].failed \cap hist[w].ok = {}

\* A request went through every stage in order and succeeded, after an
\* earlier request stopped at a failed stage and left its .png behind.
C8_Witness ==
    /\ Succeeded(1)
    /\ hist[1].started = StageOrder
    /\ hist[1].ok = {"mask", "magick", "potrace", "read"}
    /\ \E n \in PngNames : fs[n] # NoFile /\ fs[n].writer = None

BlurExplicit == [pr |-> ExplicitPillow(b_in.blur_pillow), im |-> ExplicitIm(b_in.blur_im)]

NoExplicit == BlurExplicit.pr = None /\ BlurExplicit.im = None

\* C9 as stated: the blur field is consulted only when neither override
\* yielded a value; then a blur string that starts with "0x" becomes the
\* ImageMagick blur and any other value is parsed as the Pillow radius.
C9_BlurPrefixAsSent ==
    b_out # None =>
        IF ~NoExplicit \/ b_in.blur = NoneV
        THEN b_out = BlurExplicit
        ELSE IF StartsWith0x(PyStr(b_in.blur))
        THEN b_out.pr = None /\ b_out.im # None /\ StartsWith0x(b_out.im[1])
        ELSE b_out = [pr |-> to_float_or_none(b_in.blur), im |-> None]

\* C9 amended: the blur field is consulted only when neither override
\* yielded a value; then a blur value whose string form, stripped of
\* surrounding blanks, starts with "0x" becomes (stripped) the ImageMagick
\* blur, and any other value is parsed from that stripped string as the
\* Pillow radius (None if not numeric).  The blur field alone never sets
\* both results and a returned ImageMagick blur always starts with "0x".
C9_BlurSelection ==
    b_out # None =>
        /\ IF ~NoExplicit \/ b_in.blur = NoneV
           THEN b_out = BlurExplicit
           ELSE IF StartsWith0x(Strip(PyStr(b_in.blur)))
           THEN b_out = [pr |-> None, im |-> <<Strip(PyStr(b_in.blur))>>]
           ELSE b_out = [pr |-> ParseFloat(Strip(PyStr(b_in.blur))), im |-> None]
        /\ NoExplicit => (b_out.pr = None \/ b_out.im = None)
        /\ b_out.im # None => StartsWith0x(b_out.im[1])

\* The blur field " 0x" beside an override that yields nothing: stripped, it
\* is the ImageMagick blur.
C9_Witness ==
    /\ b_out # None
    /\ b_in.blur = StrV(<<" ", "0", "x">>)
    /\ b_in.blur_pillow = StrV(<<"x">>)
    /\ b_in.blur_im = NoneV
    /\ b_out = [pr |-> None, im |-> << <<"0", "x">> >>]

\* The header reads "<scheme> <token>" with scheme "bearer" in any case and
\* token the configured key.
BearerWithKey(header, api_key) ==
    /\ header # None
    /\ api_key # None
    /\ \E i \in 1..Len(header[1]) :
          /\ header[1][i] = " "
          /\ Lower(SubSeq(header[1], 1, i - 1)) = BearerWord
          /\ SubSeq(header[1], i + 1, Len(header[1])) = api_key[1]

\* C10: on each of the three routes and for every configured key, a request
\* whose Authorization header is not "<bearer> <key>" is answered 401 and
\* causes no image fetch, no mask computation, no temporary file and no
\* subprocess; with the key unset every request is rejected.
C10_OnlyBearerWithKeyIsProcessed ==
    \A w \in Workers :
        req[w] # NoReq =>
            /\ ~BearerWithKey(req[w].header, API_KEY) =>
                  /\ pc[w] = "done"
                  /\ resp[w].code = 401
                  /\ hist[w].started = <<>>
                  /\ ~hist[w].fetched
                  /\ loc[w] = NoLoc
                  /\ \A n \in Names : fs[n] = NoFile \/ fs[n].writer # <<w>>
            /\ API_KEY = None => resp[w] # NoResp /\ resp[w].code = 401

\* An upper-case scheme with the configured key is processed on /svg: the
\* image is fetched and the request succeeds.
C10_Witness ==
    /\ API_KEY = <<KeyK>>
    /\ Succeeded(1)
    /\ req[1].route = "/svg"
    /\ req[1].header = << <<"B", "E", "A", "R", "E", "R", " ", "k">> >>
    /\ hist[1].fetched

====
